---- MODULE Spec2Model ----
(***************************************************************************)
(* Prescriber Analytics MCP server (server.py) behind its HTTP API         *)
(* (api.py): configuration, the tool registry, the four report builders,   *)
(* the database connection they share and the route handlers that call     *)
(* them.                                                                   *)
(*                                                                         *)
(* Representation.  A Python string that may hold newlines is the sequence *)
(* of its lines (s.split("\n")); two strings are byte-identical exactly    *)
(* when their line sequences are equal.  None / SQL NULL is the string     *)
(* NULL where a string is expected and a number record with null = TRUE    *)
(* where a number is expected.  A number is the exact rational num / den.  *)
(***************************************************************************)
EXTENDS Integers, Sequences, FiniteSets, TLC

(***************************************************************************)
(* Bounds of the model.                                                    *)
(***************************************************************************)
MaxRows == 2
MaxRequests == 2

NULL == "<null>"

(***************************************************************************)
(* The environment: settings, and the content of the database.             *)
(***************************************************************************)
Settings == {"DB_SERVER", "DB_NAME", "DB_TABLE"}
SettingValues == {NULL, "", "set"}

\* The prescribers that can occur in the claims table.  A prescriber's name
\* may be NULL, which is what makes COUNT(DISTINCT [Prscrbr_Full_Name]) = 0
\* possible for a group.
Prescribers ==
    { [name |-> "Ann Lee", city |-> "Reno", state |-> "NV", type |-> "Dentist"],
      [name |-> "Bo Diaz", city |-> "Reno", state |-> "NV", type |-> "Nurse"],
      [name |-> NULL,      city |-> "Erie", state |-> "PA", type |-> "Nurse"] }
ClaimCounts == {0, 1}

\* One claims record: a prescriber's claims for a drug, each claim costing 3.
\* The measure columns are not NULL.
ClaimsRecord(p, clms) ==
    [Prscrbr_Full_Name |-> p.name, Prscrbr_City |-> p.city,
     Prscrbr_State_Abrvtn |-> p.state, Prscrbr_Type |-> p.type,
     Brnd_Name |-> "Advil", Tot_Clms |-> clms, Tot_Drug_Cst |-> 3 * clms,
     Tot_Benes |-> clms, Tot_Day_Suply |-> 30 * clms]

ClaimsRecords ==
    {ClaimsRecord(p, n) : p \in Prescribers, n \in ClaimCounts}

Tables == {t \in SUBSET ClaimsRecords : Cardinality(t) <= MaxRows}

\* INFORMATION_SCHEMA.COLUMNS of the table, in catalog order.
Catalog ==
    << <<"Prscrbr_Full_Name", "varchar">>, <<"Prscrbr_State_Abrvtn", "varchar">>,
       <<"Tot_Clms", "int">>, <<"Tot_Drug_Cst", "decimal">> >>

\* The limits a caller passes as `top` / `limit`.
Limits == {-1, 0, 1, 2}

ConnectErrors == {"Login timeout expired"}
QueryErrors == {"Invalid object name"}
NegativeTopError == "A TOP N or FETCH rowcount value may not be negative."

(***************************************************************************)
(* Numbers.                                                                *)
(***************************************************************************)
Int_(n) == [null |-> FALSE, num |-> n, den |-> 1]
None == [null |-> TRUE, num |-> 0, den |-> 1]

\* x * 1.0 / NULLIF(y, 0), both x and y non-null integers.
DivNullIfZero(x, y) ==
    IF y = 0 THEN None ELSE [null |-> FALSE, num |-> x, den |-> y]

RECURSIVE Sum(_, _)
Sum(S, col) ==
    IF S = {} THEN 0
    ELSE LET r == CHOOSE r \in S : TRUE IN r[col] + Sum(S \ {r}, col)

CountDistinct(S, col) == Cardinality({r[col] : r \in S} \ {NULL})

Min(a, b) == IF a < b THEN a ELSE b

(***************************************************************************)
(* Python's format() for the format specs the builders use.                *)
(***************************************************************************)
Pow10(p) == IF p = 1 THEN 10 ELSE 100

\* n / d rounded to an integer, ties to even (n >= 0, d > 0).
RoundHalfEven(n, d) ==
    LET q == n \div d
        r == n % d
    IN  IF 2 * r < d THEN q
        ELSE IF 2 * r > d THEN q + 1
        ELSE IF q % 2 = 0 THEN q ELSE q + 1

ZeroPad(n, width) ==
    IF width = 1 THEN ToString(n)
    ELSE IF width = 2 THEN (IF n < 10 THEN "0" ELSE "") \o ToString(n)
    ELSE (IF n < 10 THEN "00" ELSE IF n < 100 THEN "0" ELSE "") \o ToString(n)

\* The ',' option: groups of three digits.
RECURSIVE Grouped(_)
Grouped(n) ==
    IF n < 1000 THEN ToString(n)
    ELSE Grouped(n \div 1000) \o "," \o ZeroPad(n % 1000, 3)

Fixed(v, places, comma) ==
    LET scaled == RoundHalfEven(v.num * Pow10(places), v.den)
        ip == scaled \div Pow10(places)
        fp == scaled % Pow10(places)
    IN  (IF comma THEN Grouped(ip) ELSE ToString(ip)) \o "." \o ZeroPad(fp, places)

\* f"{value:{format_spec}}" for a number that is not None.
Format(v, format_spec) ==
    CASE format_spec = ".2f"  -> Fixed(v, 2, FALSE)
      [] format_spec = ".1f"  -> Fixed(v, 1, FALSE)
      [] format_spec = ",.2f" -> Fixed(v, 2, TRUE)
      [] format_spec = ","    -> Grouped(v.num)
      [] format_spec = ""     -> ToString(v.num)

\* format_number without the substitution of the default.
format_number_NoDefault(value, format_spec, default) ==
    IF value.null THEN "nan" ELSE Format(value, format_spec)

format_number(value, format_spec, default) ==
    Format(IF value.null THEN Int_(default) ELSE value, format_spec)

\* f"{x}" of a string column: None prints as "None".
Str(x) == IF x = NULL THEN "None" ELSE x

(***************************************************************************)
(* The queries.  A result row is a tuple; Python's row[i] is row[i + 1].   *)
(***************************************************************************)
GroupOf(tbl, cols, r) == {x \in tbl : \A c \in cols : x[c] = r[c]}

PrescriberKey == {"Prscrbr_Full_Name", "Prscrbr_City", "Prscrbr_State_Abrvtn", "Prscrbr_Type"}

TopPrescribersRow(g, r) ==
    << r.Prscrbr_Full_Name, r.Prscrbr_City, r.Prscrbr_State_Abrvtn, r.Prscrbr_Type,
       Int_(Sum(g, "Tot_Clms")), Int_(Sum(g, "Tot_Drug_Cst")),
       Int_(CountDistinct(g, "Brnd_Name")) >>

TopPrescribersGroups(tbl) ==
    {TopPrescribersRow(GroupOf(tbl, PrescriberKey, r), r) : r \in tbl}

TopStatesRow(g, r) ==
    LET prescribers == CountDistinct(g, "Prscrbr_Full_Name")
        claims == Sum(g, "Tot_Clms")
        cost == Sum(g, "Tot_Drug_Cst")
    IN  << r.Prscrbr_State_Abrvtn, Int_(prescribers), Int_(claims), Int_(cost),
           Int_(Sum(g, "Tot_Benes")),
           DivNullIfZero(cost, claims),
           DivNullIfZero(claims, prescribers),
           DivNullIfZero(cost, prescribers) >>

TopStatesGroups(tbl) ==
    {TopStatesRow(GroupOf(tbl, {"Prscrbr_State_Abrvtn"}, r), r) : r \in tbl}

PrescriberTypesRow(g, r) ==
    LET prescribers == CountDistinct(g, "Prscrbr_Full_Name")
        claims == Sum(g, "Tot_Clms")
        cost == Sum(g, "Tot_Drug_Cst")
    IN  << r.Prscrbr_Type, Int_(prescribers), Int_(claims), Int_(cost),
           Int_(Sum(g, "Tot_Benes")),
           DivNullIfZero(cost, claims),
           DivNullIfZero(claims, prescribers),
           DivNullIfZero(cost, prescribers),
           Int_(CountDistinct(g, "Brnd_Name")),
           DivNullIfZero(Sum(g, "Tot_Day_Suply"), claims) >>

PrescriberTypesGroups(tbl) ==
    {PrescriberTypesRow(GroupOf(tbl, {"Prscrbr_Type"}, r), r) : r \in tbl}

\* A query without its ORDER BY: the groups in any order.
OrderByDesc_Unordered(groups, col) ==
    {s \in [1..Cardinality(groups) -> groups] :
        \A i, j \in DOMAIN s : i # j => s[i] # s[j]}

\* ORDER BY Total_Claims DESC: every arrangement of the groups that is
\* non-increasing in column col; the order of groups that tie is the
\* server's choice.
OrderByDesc(groups, col) ==
    {s \in [1..Cardinality(groups) -> groups] :
        /\ \A i, j \in DOMAIN s : i # j => s[i] # s[j]
        /\ \A i \in DOMAIN s : i + 1 \in DOMAIN s => s[i][col].num >= s[i + 1][col].num}

\* A SELECT without its TOP clause.
Top_NoLimit(s, n) == s

\* SELECT TOP (?) with the bound parameter n >= 0.
Top(s, n) == SubSeq(s, 1, Min(n, Len(s)))

RankingQueries == {"top_prescribers", "top_states"}

\* The server's error for the statement, or NULL when it accepts it.
SqlError(q) ==
    IF q.sql \in RankingQueries /\ q.params[1] < 0 THEN NegativeTopError ELSE NULL

\* The row sequences cursor.fetchall() can return for an accepted statement.
ResultSets(q, tbl) ==
    CASE q.sql = "schema" -> {Catalog}
      [] q.sql = "top_prescribers" ->
            {Top(s, q.params[1]) : s \in OrderByDesc(TopPrescribersGroups(tbl), 5)}
      [] q.sql = "top_states" ->
            {Top(s, q.params[1]) : s \in OrderByDesc(TopStatesGroups(tbl), 3)}
      [] q.sql = "prescriber_types" -> OrderByDesc(PrescriberTypesGroups(tbl), 3)

(***************************************************************************)
(* The report builders registered by initialize_mcp.                       *)
(***************************************************************************)
ToolNames ==
    {"get_schema_info", "get_top_prescribers", "get_top_states",
     "get_prescriber_types_summary"}

\* The <report> of "Error retrieving <report>: ...".
ReportName(tool) ==
    CASE tool = "get_schema_info" -> "schema"
      [] tool = "get_top_prescribers" -> "top prescribers"
      [] tool = "get_top_states" -> "top states"
      [] tool = "get_prescriber_types_summary" -> "prescriber types summary"

\* Builders that bind top + 1 instead of top.
BuilderQuery_OffByOne(tool, top, dbtable) ==
    CASE tool = "get_schema_info" -> [sql |-> "schema", params |-> <<dbtable>>]
      [] tool = "get_top_prescribers" -> [sql |-> "top_prescribers", params |-> <<top + 1>>]
      [] tool = "get_top_states" -> [sql |-> "top_states", params |-> <<top + 1>>]
      [] tool = "get_prescriber_types_summary" ->
            [sql |-> "prescriber_types", params |-> <<>>]

\* The statement a builder hands to db.execute_query, and its parameters
\* (<<>> stands for params=None).
BuilderQuery(tool, top, dbtable) ==
    CASE tool = "get_schema_info" -> [sql |-> "schema", params |-> <<dbtable>>]
      [] tool = "get_top_prescribers" -> [sql |-> "top_prescribers", params |-> <<top>>]
      [] tool = "get_top_states" -> [sql |-> "top_states", params |-> <<top>>]
      [] tool = "get_prescriber_types_summary" ->
            [sql |-> "prescriber_types", params |-> <<>>]

RECURSIVE Concat(_)
Concat(blocks) ==
    IF blocks = <<>> THEN <<>> ELSE Head(blocks) \o Concat(Tail(blocks))

\* header_line + "\n" + "\n".join(blocks), as lines.
JoinReport(header, blocks) ==
    <<header>> \o (IF blocks = <<>> THEN <<"">> ELSE Concat(blocks))

SchemaLine(col) == << col[1] \o ": " \o col[2] >>

TopPrescribersLine(row) ==
    << Str(row[1]) \o " (" \o Str(row[4]) \o ") - " \o Str(row[2]) \o ", " \o Str(row[3])
       \o " - " \o Format(row[5], ",") \o " claims, $" \o Format(row[6], ",.2f")
       \o " total cost, " \o Format(row[7], "") \o " unique brands" >>

TopStatesBlock(row) ==
    << Str(row[1]) \o " - " \o Format(row[2], ",") \o " prescribers, "
       \o Format(row[3], ",") \o " claims, $" \o Format(row[4], ",.2f") \o " total cost",
       "    Cost per claim: $" \o format_number(row[6], ".2f", 0)
       \o ", Claims per prescriber: " \o format_number(row[7], ".1f", 0)
       \o ", Cost per prescriber: $" \o format_number(row[8], ",.2f", 0),
       "    Total beneficiary events: " \o Format(row[5], ",")
       \o " (Note: May include repeat visits)" >>

PrescriberTypesBlock(row) ==
    << Str(row[1]) \o ": " \o format_number(row[2], ",", 0) \o " prescribers, "
       \o format_number(row[3], ",", 0) \o " claims, $"
       \o format_number(row[4], ",.2f", 0) \o " total cost",
       "    Cost per claim: $" \o format_number(row[6], ".2f", 0)
       \o ", Claims per prescriber: " \o format_number(row[7], ".1f", 0)
       \o ", Cost per prescriber: $" \o format_number(row[8], ",.2f", 0),
       "    " \o format_number(row[9], "", 0) \o " unique brands prescribed, "
       \o format_number(row[10], ".1f", 0) \o " days supply per claim",
       "    Total beneficiary events: " \o format_number(row[5], ",", 0)
       \o " (Note: May include repeat visits)" >>

Header(tool, top) ==
    CASE tool = "get_schema_info" -> "Schema:"
      [] tool = "get_top_prescribers" ->
            "Returning top " \o ToString(top) \o " prescribers by total claims:"
      [] tool = "get_top_states" ->
            "Returning top " \o ToString(top) \o " states by total claims:"
      [] tool = "get_prescriber_types_summary" -> "Summary of prescriber types:"

Block(tool, row) ==
    CASE tool = "get_schema_info" -> SchemaLine(row)
      [] tool = "get_top_prescribers" -> TopPrescribersLine(row)
      [] tool = "get_top_states" -> TopStatesBlock(row)
      [] tool = "get_prescriber_types_summary" -> PrescriberTypesBlock(row)

\* The return statement of a builder's try block.
Render(tool, top, rows) ==
    JoinReport(Header(tool, top), [i \in 1..Len(rows) |-> Block(tool, rows[i])])

\* The return statement of a builder's except block.
ErrorText(tool, msg) == << "Error retrieving " \o ReportName(tool) \o ": " \o msg >>

\* A builder without its except block: the failure reaches the caller.
BuilderResult_Reraise(tool, top, outcome) ==
    IF outcome.ok
    THEN [raised |-> FALSE, value |-> Render(tool, top, outcome.rows)]
    ELSE [raised |-> TRUE, value |-> <<outcome.msg>>]

\* A builder after db.execute_query has returned rows or raised msg:
\* what the builder hands its caller.
BuilderResult(tool, top, outcome) ==
    IF outcome.ok
    THEN [raised |-> FALSE, value |-> Render(tool, top, outcome.rows)]
    ELSE [raised |-> FALSE, value |-> ErrorText(tool, outcome.msg)]

(***************************************************************************)
(* The HTTP routes of api.py.                                              *)
(***************************************************************************)
Routes == {"/schema", "/prescriber-types", "/top-prescribers", "/top-states"}

RankingRoutes == {"/top-prescribers", "/top-states"}

\* The registry key a route looks up.
RouteTool(route) ==
    CASE route = "/schema" -> "get_schema_info"
      [] route = "/prescriber-types" -> "get_prescriber_types_summary"
      [] route = "/top-prescribers" -> "get_top_prescribers"
      [] route = "/top-states" -> "get_top_states"

\* The key of the JSON object a route returns.
RouteKey(route) == IF route = "/schema" THEN "schema" ELSE "data"

\* mcp.tools[name] when name is not registered: KeyError, str(e) = "'name'".
LookupError(name) == [raised |-> TRUE, value |-> << "'" \o name \o "'" >>]

\* A handler that calls the tool and returns nothing.
HandlerResponse_NoReturn(route, result) ==
    IF result.raised
    THEN [status |-> 500, key |-> "detail", body |-> result.value]
    ELSE [status |-> 200, key |-> RouteKey(route), body |-> <<>>]

\* A route handler's try/except around the tool call.
HandlerResponse(route, result) ==
    IF result.raised
    THEN [status |-> 500, key |-> "detail", body |-> result.value]
    ELSE [status |-> 200, key |-> RouteKey(route), body |-> result.value]

(***************************************************************************)
(* State.                                                                  *)
(***************************************************************************)
VARIABLES
    env,        \* os.getenv: setting -> NULL (unset), "" or a value
    table,      \* the rows of [dbo].[DB_TABLE]
    phase,      \* "start", then "failed" or "serving" (api.py's module body)
    initError,  \* the words of the message initialize_mcp raised, or <<>>
    db,         \* the AzureSQLConnection the builders close over
    tools,      \* FastMCP.tools: name -> registered function
    conns,      \* conns[c]: "open" or "closed", for every connection made
    reqs        \* the HTTP requests

vars == <<env, table, phase, initError, db, tools, conns, reqs>>

Requests == 1..MaxRequests

NoDb == [server |-> NULL, database |-> NULL, table |-> NULL, connection |-> 0]

NoResponse == [status |-> 0, key |-> "", body |-> <<>>]

IdleRequest ==
    [st |-> "idle", route |-> "", limit |-> 0, conn |-> 0, connects |-> 0,
     queries |-> 0, params |-> <<>>, failed |-> FALSE, failure |-> "",
     fetched |-> FALSE, rows |-> <<>>,
     result |-> [raised |-> FALSE, value |-> <<>>], response |-> NoResponse]

Init ==
    /\ env \in [Settings -> SettingValues]
    /\ table \in Tables
    /\ phase = "start"
    /\ initError = <<>>
    /\ db = NoDb
    /\ tools = <<>>
    /\ conns = <<>>
    /\ reqs = [r \in Requests |-> IdleRequest]

(***************************************************************************)
(* Start-up: api.py line 8 runs initialize_mcp, which constructs the       *)
(* AzureSQLConnection and then registers the four tools.                    *)
(***************************************************************************)
\* Python truthiness of a setting's value.
Truthy(v) == v # NULL /\ v # ""

\* The words of the ValueError _setup_connection raises.
SetupErrorMessage == <<"Required", "environment", "variables", "are", "not", "set">>

\* _setup_connection: the error to raise, <<>> when there is none.
SetupError(e) ==
    IF \A s \in Settings : Truthy(e[s]) THEN <<>> ELSE SetupErrorMessage

\* Two tools defined under one name: the later registration overwrites.
RegisteredTools_Overwritten ==
    [name \in ToolNames \ {"get_top_states"} |-> name]

\* The registry after the four @mcp.tool() decorators have run.
RegisteredTools == [name \in ToolNames |-> name]

initialize_mcp ==
    /\ phase = "start"
    /\ IF SetupError(env) # <<>>
       THEN /\ phase' = "failed"
            /\ initError' = SetupError(env)
            /\ UNCHANGED <<db, tools>>
       ELSE /\ phase' = "serving"
            /\ db' = [server |-> env["DB_SERVER"], database |-> env["DB_NAME"],
                      table |-> env["DB_TABLE"], connection |-> 0]
            /\ tools' = RegisteredTools
            /\ UNCHANGED initError
    /\ UNCHANGED <<env, table, conns, reqs>>

(***************************************************************************)
(* Requests.  The handlers are coroutines without an await: the event loop *)
(* runs one handler at a time, from its first line to its return.          *)
(***************************************************************************)
Running == {r \in Requests : reqs[r].st = "running"}

\* A GET arrives for a route; FastAPI parses `limit` (the default, 10, is a
\* limit like the ones a caller passes).
Arrive(r, route, limit) ==
    /\ phase = "serving"
    /\ reqs[r].st = "idle"
    /\ \A q \in Requests : q < r => reqs[q].st # "idle"
    /\ reqs' = [reqs EXCEPT ![r] =
                   [IdleRequest EXCEPT !.st = "pending", !.route = route,
                                       !.limit = limit]]
    /\ UNCHANGED <<env, table, phase, initError, db, tools, conns>>

\* What the registered tool hands the handler of request r when
\* db.execute_query ended in `outcome`.
ToolResult(r, outcome) ==
    BuilderResult(RouteTool(reqs[r].route), reqs[r].limit, outcome)

\* pyodbc frees a connection object that nothing references any more, and
\* freeing it closes it: the connection self.connection held before the
\* assignment of line 74.
Released(cs, old) == IF old = 0 THEN cs ELSE [cs EXCEPT ![old] = "closed"]

\* Leaving `with self.connect() as conn`: pyodbc's Connection.__exit__
\* commits (or rolls back, on an exception) and leaves the connection as
\* it is; it does not close it.
ConnectionExit(status) == status

\* The event loop starts the handler of the oldest pending request, once
\* the handler before it has returned: registry lookup, the builder's call
\* of db.execute_query, and in it connect().
Connect(r) ==
    /\ reqs[r].st = "pending"
    /\ \A q \in Requests : q < r => reqs[q].st = "done"
    /\ LET tool == RouteTool(reqs[r].route) IN
       IF tool \notin DOMAIN tools
       THEN /\ reqs' = [reqs EXCEPT ![r].st = "done",
                            ![r].response = HandlerResponse(reqs[r].route, LookupError(tool))]
            /\ UNCHANGED <<db, conns>>
       ELSE \/ \E m \in ConnectErrors :
                 LET result == ToolResult(r, [ok |-> FALSE, msg |-> m, rows |-> <<>>]) IN
                 /\ reqs' = [reqs EXCEPT ![r].st = "done", ![r].failed = TRUE,
                                 ![r].failure = m,
                                 ![r].result = result,
                                 ![r].response = HandlerResponse(reqs[r].route, result)]
                 /\ UNCHANGED <<db, conns>>
            \/ /\ conns' = Append(Released(conns, db.connection), "open")
               /\ db' = [db EXCEPT !.connection = Len(conns) + 1]
               /\ reqs' = [reqs EXCEPT ![r].st = "running", ![r].conn = Len(conns) + 1,
                               ![r].connects = reqs[r].connects + 1]
    /\ UNCHANGED <<env, table, phase, initError, tools>>

\* What cursor.execute / fetchall can do with statement q.
QueryOutcomes(q, tbl) ==
    IF SqlError(q) # NULL
    THEN {[ok |-> FALSE, msg |-> SqlError(q), rows |-> <<>>]}
    ELSE {[ok |-> FALSE, msg |-> m, rows |-> <<>>] : m \in QueryErrors}
         \cup {[ok |-> TRUE, msg |-> "", rows |-> rs] : rs \in ResultSets(q, tbl)}

\* The rest of the handler: the query on the connection, the end of the
\* with block, the builder's return and the handler's response.
Finish(r) ==
    /\ reqs[r].st = "running"
    /\ LET q == BuilderQuery(RouteTool(reqs[r].route), reqs[r].limit, db.table) IN
       \E outcome \in QueryOutcomes(q, table) :
          LET result == ToolResult(r, outcome) IN
          /\ reqs' = [reqs EXCEPT ![r] =
                         [@ EXCEPT !.st = "done",
                                   !.queries = @ + 1,
                                   !.params = q.params,
                                   !.failed = ~outcome.ok,
                                   !.failure = outcome.msg,
                                   !.fetched = outcome.ok,
                                   !.rows = outcome.rows,
                                   !.result = result,
                                   !.response = HandlerResponse(reqs[r].route, result)]]
          /\ conns' = [conns EXCEPT ![reqs[r].conn] = ConnectionExit(conns[reqs[r].conn])]
    /\ UNCHANGED <<env, table, phase, initError, db, tools>>

Next ==
    \/ initialize_mcp
    \/ \E r \in Requests, route \in Routes \ RankingRoutes : Arrive(r, route, 0)
    \/ \E r \in Requests, route \in RankingRoutes, limit \in Limits : Arrive(r, route, limit)
    \/ \E r \in Requests : Connect(r)
    \/ \E r \in Requests : Finish(r)

Spec == Init /\ [][Next]_vars

(***************************************************************************)
(* Properties.                                                             *)
(***************************************************************************)
Done == {r \in Requests : reqs[r].st = "done"}

ToolOf(r) == RouteTool(reqs[r].route)

\* The one line a builder returns when its query or connection failed.
ErrorLine(r) ==
    << "Error retrieving " \o ReportName(ToolOf(r)) \o ": " \o reqs[r].failure >>

\* The lines after the header line; the empty remainder "" is no line.
NumBodyLines(text) == IF Tail(text) = <<"">> THEN 0 ELSE Len(text) - 1

\* C1: every report builder returns a string for every argument and every
\* outcome of connecting and querying, and raises nothing to its caller;
\* when the connection or the query failed with message m the string is
\* exactly "Error retrieving <report>: m".
C1_BuildersTotal ==
    \A r \in Done :
        /\ ~reqs[r].result.raised
        /\ Len(reqs[r].result.value) >= 1
        /\ \A i \in DOMAIN reqs[r].result.value : reqs[r].result.value[i] \in STRING
        /\ reqs[r].failed => reqs[r].result.value = ErrorLine(r)

C1_Witness ==
    \E r, q \in Done :
        /\ reqs[r].failed /\ reqs[r].connects = 0
        /\ reqs[r].result.value = ErrorLine(r)
        /\ reqs[q].failed /\ reqs[q].queries = 1
        /\ reqs[q].result.value = ErrorLine(q)

\* C2: each report invocation acquires one connection, runs one query on
\* it and has closed it by the time it returns, on every exit path; when no
\* invocation is in progress no connection is open.
C2_ConnectionReleased ==
    /\ \A r \in Done :
          /\ reqs[r].connects <= 1
          /\ reqs[r].queries = reqs[r].connects
          /\ reqs[r].conn # 0 => conns[reqs[r].conn] = "closed"
    /\ Running = {} => \A c \in DOMAIN conns : conns[c] = "closed"

\* C3: a request to one of the four report routes is answered with 200 and
\* the tool's string or with 500 and the failure's message; when the
\* connection or query failed the answer carries the error message, never
\* an empty body.
C3_ResponseCarriesError ==
    \A r \in Done :
        /\ reqs[r].response.status \in {200, 500}
        /\ reqs[r].response.status = 200 =>
              /\ reqs[r].response.key = RouteKey(reqs[r].route)
              /\ reqs[r].response.body = reqs[r].result.value
        /\ reqs[r].response.status = 500 => reqs[r].response.key = "detail"
        /\ reqs[r].failed =>
              /\ reqs[r].response.body # <<>>
              /\ reqs[r].response.body # <<"">>
              /\ reqs[r].response.body \in {ErrorLine(r), <<reqs[r].failure>>}

C3_Witness ==
    \E r \in Done :
        /\ reqs[r].failed
        /\ reqs[r].response.status = 200
        /\ reqs[r].response.body = ErrorLine(r)

\* The settings a message names.
Named(msg) == {msg[i] : i \in DOMAIN msg} \cap Settings

Missing == {s \in Settings : ~Truthy(env[s])}

\* C4: when a required setting is missing or empty, initialization fails
\* before any tool is registered or connection attempted and the message
\* names the missing settings; when all three are set it succeeds with
\* server, database and table non-null.
C4_MissingSettingsNamed ==
    /\ phase = "failed" =>
          /\ Missing # {}
          /\ tools = <<>> /\ conns = <<>>
          /\ Named(initError) = Missing
    /\ phase = "serving" =>
          /\ Missing = {}
          /\ db.server # NULL /\ db.database # NULL /\ db.table # NULL

\* The number of groups of GROUP BY name, city, state, type.
NumPrescriberGroups ==
    Cardinality({ <<x.Prscrbr_Full_Name, x.Prscrbr_City, x.Prscrbr_State_Abrvtn,
                    x.Prscrbr_Type>> : x \in table })

C6_RankingLimitAndOrder ==
    \A r \in Done :
        (reqs[r].route \in RankingRoutes /\ reqs[r].limit >= 0 /\ reqs[r].queries = 1) =>
            /\ reqs[r].params = <<reqs[r].limit>>
            /\ reqs[r].fetched =>
                  LET rows == reqs[r].rows
                      col == IF reqs[r].route = "/top-prescribers" THEN 5 ELSE 3
                      size == IF reqs[r].route = "/top-prescribers" THEN 1 ELSE 3
                      body == Tail(reqs[r].response.body)
                  IN  /\ Len(rows) <= reqs[r].limit
                      /\ \A i, j \in DOMAIN rows : i < j => rows[i][col].num >= rows[j][col].num
                      /\ rows # <<>> => Len(body) = size * Len(rows)
                      /\ \A i \in DOMAIN rows :
                            SubSeq(body, size * (i - 1) + 1, size * i) = Block(ToolOf(r), rows[i])

C6_Witness ==
    \E r \in Done :
        /\ reqs[r].route = "/top-states" /\ reqs[r].limit = 2 /\ reqs[r].fetched
        /\ Len(reqs[r].rows) = 2
        /\ reqs[r].rows[1][3].num > reqs[r].rows[2][3].num

\* The line of a block that shows the three ratios, with 0 for a ratio
\* whose denominator is 0.
RatioLine(row) ==
    "    Cost per claim: $"
       \o (IF row[3].num = 0 THEN "0.00" ELSE Format(row[6], ".2f"))
       \o ", Claims per prescriber: "
       \o (IF row[2].num = 0 THEN "0.0" ELSE Format(row[7], ".1f"))
       \o ", Cost per prescriber: $"
       \o (IF row[2].num = 0 THEN "0.00" ELSE Format(row[8], ",.2f"))

DaysLine(row) ==
    "    " \o ToString(row[9].num) \o " unique brands prescribed, "
       \o (IF row[3].num = 0 THEN "0.0" ELSE Format(row[10], ".1f"))
       \o " days supply per claim"

C8_NoRequestBlocksAnother ==
    /\ \A r \in Requests :
          (reqs[r].st = "pending" /\ \A q \in Requests : q < r => reqs[q].st # "pending")
             => ENABLED Connect(r)
    /\ \A r \in Running :
          conns[reqs[r].conn] = "open" /\ db.connection = reqs[r].conn

\* No two groups of the report of a route have the same total claims.
NoTies(route) ==
    LET Distinct(groups, col) ==
            \A g, h \in groups : g # h => g[col].num # h[col].num
    IN  CASE route = "/schema" -> TRUE
          [] route = "/top-prescribers" -> Distinct(TopPrescribersGroups(table), 5)
          [] route = "/top-states" -> Distinct(TopStatesGroups(table), 3)
          [] route = "/prescriber-types" -> Distinct(PrescriberTypesGroups(table), 3)

\* C9 as stated: two invocations of the same report with the same limit
\* over the same data, both of which got their rows, return the same
\* string, also when groups tie on total claims.
C9_SameOutput ==
    \A r, q \in Done :
        (/\ reqs[r].route = reqs[q].route /\ reqs[r].limit = reqs[q].limit
         /\ reqs[r].fetched /\ reqs[q].fetched) =>
            reqs[r].result.value = reqs[q].result.value

\* C9 amended: two invocations of the same report with the same limit over
\* the same data, both of which got their rows, return the same string
\* when no two groups of the report tie on total claims.
C9_SameOutputWithoutTies ==
    \A r, q \in Done :
        (/\ reqs[r].route = reqs[q].route /\ reqs[r].limit = reqs[q].limit
         /\ reqs[r].fetched /\ reqs[q].fetched
         /\ NoTies(reqs[r].route)) =>
            reqs[r].result.value = reqs[q].result.value

C9_Witness ==
    \E r, q \in Done :
        /\ r # q
        /\ reqs[r].route = "/top-prescribers" /\ reqs[q].route = "/top-prescribers"
        /\ reqs[r].limit = 2 /\ reqs[q].limit = 2
        /\ reqs[r].fetched /\ reqs[q].fetched
        /\ Len(reqs[r].rows) = 2
        /\ NoTies("/top-prescribers")
        /\ reqs[r].result.value = reqs[q].result.value

\* C10: the registry holds exactly the four tools from the moment
\* initialize_mcp has run, whatever requests have been served, and every
\* name a route looks up is in it; before that it is empty.
C10_RegistryFixed ==
    /\ phase # "serving" => tools = <<>>
    /\ phase = "serving" =>
          /\ DOMAIN tools = {"get_schema_info", "get_top_prescribers", "get_top_states",
                             "get_prescriber_types_summary"}
          /\ \A route \in Routes : RouteTool(route) \in DOMAIN tools
          /\ \A r \in Done : reqs[r].response.status = 200

C10_Witness ==
    /\ phase = "serving"
    /\ Cardinality(DOMAIN tools) = 4
    /\ \A r \in Requests : reqs[r].st = "done" /\ reqs[r].response.status = 200

====
